---- MODULE Spec2Model ----
(***************************************************************************)
(* Model of u8g2_sim.py: the live-reload loop (LivePythonRenderer), the    *)
(* bitmap LRU cache (_LRUCache), and the cached file blits, the packed     *)
(* bitmap blits and the pixel primitives of U8G2SimLCD.                    *)
(*                                                                         *)
(* Python's None is modelled as the empty sequence <<>> and a present      *)
(* value v as <<v>>, so that optional values stay comparable.              *)
(***************************************************************************)
EXTENDS Integers, Sequences, FiniteSets, TLC

VARIABLES
    \* ---- LivePythonRenderer and its environment
    file,          \* the watched source file on disk
    last_mtime,    \* self._last_mtime
    module_env,    \* self._module_env
    func_name,     \* self._func_name
    started,       \* start() has been called
    after_timers,  \* pump callbacks registered with root.after, delay running
    after_due,     \* pump callbacks whose delay has elapsed
    tick,          \* what the last run of pump did (observation record)
    \* ---- _LRUCache
    max_items,     \* self.max_items
    d,             \* self._d, oldest entry first
    lru_op,        \* what the last direct call of get, put or clear did
                   \* (observation record)
    \* ---- U8G2SimLCD and the bitmap files it blits
    bmp,           \* the bitmap files on disk, by path
    img,           \* self.img, the framebuffer: pixel -> BLACK or WHITE
    draw_color,    \* self.draw_color
    call,          \* what the last blit did (observation record)
    arg            \* the arguments the drawing code passes to the one
                   \* drawing call it makes, frame after frame

loopVars == <<file, last_mtime, module_env, func_name, started,
              after_timers, after_due, tick>>
cacheVars == <<max_items, d, lru_op>>
lcdVars == <<bmp, img, draw_color, call, arg>>
vars == <<loopVars, cacheVars, lcdVars>>

\* ------------------------------------------------------------------ bounds
MaxMtime == 2          \* the source file's timestamps are 1..MaxMtime
MaxItems == 2          \* cache sizes asked for at construction are 0..MaxItems
BlitItems == 1         \* ... and 0..BlitItems for the cache behind the file blits
SubSec == 2            \* a bitmap file's st_mtime is a multiple of 1/SubSec s
MaxStamp == 2          \* ... and is one of 0/SubSec .. MaxStamp/SubSec seconds
ImgW == 2              \* width of the bitmap files' images
ImgH == 1              \* height of the bitmap files' images
FbW == 1               \* width of the framebuffer
FbH == 1               \* height of the framebuffer
MaxBW == 9             \* packed bitmaps are 0..MaxBW pixels wide
MaxBH == 2             \* ... and 0..MaxBH rows high
MaxStride == 2         \* ... with a stride of 1..MaxStride bytes, or the default

WHITE == 255
BLACK == 0

\* ------------------------------------------------------------- helpers
None == <<>>
Some(v) == <<v>>
Last(s) == s[Len(s)]

(***************************************************************************)
(* The watched source file.  kind is what the loop can find out about it:  *)
(*   missing     os.stat raises FileNotFoundError                          *)
(*   nostat      os.stat raises another exception (e.g. PermissionError)   *)
(*   unreadable  stat works, open/read raises                              *)
(*   syntaxerr   compile() or the top-level exec() raises                  *)
(*   module      top level runs; draw / demo_draw are absent, bound to a   *)
(*               non-callable value, or bound to a function                *)
(***************************************************************************)
Defs == {"absent", "value", "func"}
Mtimes == 1..MaxMtime
Files ==
    {[kind |-> k, mtime |-> None, draw |-> "absent", demo_draw |-> "absent"] :
        k \in {"missing", "nostat"}}
    \cup
    {[kind |-> k, mtime |-> Some(m), draw |-> "absent", demo_draw |-> "absent"] :
        k \in {"unreadable", "syntaxerr"}, m \in Mtimes}
    \cup
    {[kind |-> "module", mtime |-> Some(m), draw |-> a, demo_draw |-> b] :
        m \in Mtimes, a \in Defs, b \in Defs}

\* The names the loop accepts for the entry point, in search order.
EntryNames == <<"draw", "demo_draw">>

\* env.get(name)
EnvGet(env, name) ==
    IF name = "draw" THEN env.draw
    ELSE IF name = "demo_draw" THEN env.demo_draw
    ELSE "absent"

\* callable(env.get(name))
Callable(env, name) == EnvGet(env, name) = "func"

\* The environment dict that exec() of the file's code fills in.
ExecEnv(f) == [mtime |-> f.mtime[1], draw |-> f.draw, demo_draw |-> f.demo_draw]

\* An entry point search that tries demo_draw before draw.
FindFuncReversed(env) ==
    IF Callable(env, EntryNames[2]) THEN Some(EntryNames[2])
    ELSE IF Callable(env, EntryNames[1]) THEN Some(EntryNames[1])
    ELSE None

\* for name in ("draw", "demo_draw"): first callable candidate, or None
FindFunc(env) ==
    IF Callable(env, EntryNames[1]) THEN Some(EntryNames[1])
    ELSE IF Callable(env, EntryNames[2]) THEN Some(EntryNames[2])
    ELSE None

LoadResult(lm, env, fn, stat, stage, frames, raised) ==
    [last_mtime |-> lm, module_env |-> env, func_name |-> fn,
     stat |-> stat, stage |-> stage, frames |-> frames, raised |-> raised]

(***************************************************************************)
(* LivePythonRenderer._load from the point where the timestamp is known to *)
(* be new: record it, read, compile and execute, search the entry point.   *)
(***************************************************************************)
Reload(env, fn, f) ==
    LET lm == f.mtime IN
    IF f.kind = "unreadable"
    THEN LoadResult(lm, env, fn, "changed", "read_error", <<"read_error">>, FALSE)
    ELSE IF f.kind = "syntaxerr"
    THEN LoadResult(lm, env, fn, "changed", "exec_error", <<"exec_error">>, FALSE)
    ELSE LET new == ExecEnv(f)
             found == FindFunc(new)
         IN IF found = None
            THEN LoadResult(lm, None, fn, "changed", "no_func", <<"no_func">>, FALSE)
            ELSE LoadResult(lm, Some(new), found, "changed", "bound", <<>>, FALSE)

\* A _load without the early return for an unchanged timestamp.
LoadAlways(lm, env, fn, f) ==
    IF f.kind = "missing"
    THEN LoadResult(lm, env, fn, "missing", "none", <<"waiting">>, FALSE)
    ELSE IF f.kind = "nostat"
    THEN LoadResult(lm, env, fn, "error", "none", <<>>, TRUE)
    ELSE Reload(env, fn, f)

\* A _load that reloads only when the timestamp has grown.
LoadNewerOnly(lm, env, fn, f) ==
    IF f.kind = "missing"
    THEN LoadResult(lm, env, fn, "missing", "none", <<"waiting">>, FALSE)
    ELSE IF f.kind = "nostat"
    THEN LoadResult(lm, env, fn, "error", "none", <<>>, TRUE)
    ELSE IF lm # None /\ f.mtime[1] <= lm[1]
    THEN LoadResult(lm, env, fn, "unchanged", "none", <<>>, FALSE)
    ELSE Reload(env, fn, f)

\* LivePythonRenderer._load
Load(lm, env, fn, f) ==
    IF f.kind = "missing"
    THEN LoadResult(lm, env, fn, "missing", "none", <<"waiting">>, FALSE)
    ELSE IF f.kind = "nostat"
    THEN LoadResult(lm, env, fn, "error", "none", <<>>, TRUE)
    ELSE IF lm # None /\ f.mtime = lm
    THEN LoadResult(lm, env, fn, "unchanged", "none", <<>>, FALSE)
    ELSE Reload(env, fn, f)

\* What one call of the user's entry point does: it draws and presents its
\* frame (sendBuffer, as demo_draw.py does), or it raises before presenting.
Outcomes == {"ok", "raise"}

InvokeFrames(outcome) ==
    IF outcome = "ok" THEN <<"user">> ELSE <<"draw_error">>

Faulted(t) == t.invoked # <<>> /\ t.invoked[1].outcome = "raise"

NoTick ==
    [stat |-> "none", stage |-> "none", frames |-> <<>>, invoked |-> <<>>,
     raised |-> FALSE, after_fault |-> FALSE]

\* ------------------------------------------------------------ _LRUCache
\* A cache key is the tuple (path, int(st_mtime) or None, invert); a cached
\* value is a 1-bpp image: the set of its lit pixels, and whether its pixel
\* data can be loaded.
BmpPaths == {"icon.xbm"}
KeySecs == {None} \cup {Some(t) : t \in 0..(MaxStamp \div SubSec)}
Keys == [path : BmpPaths, mtime : KeySecs, invert : BOOLEAN]
ImgCoords == (0..(ImgW - 1)) \X (0..(ImgH - 1))
Pictures == {{<<0, 0>>}}
Images ==
    {[bits |-> b, loadable |-> TRUE] : b \in Pictures \cup {ImgCoords \ p : p \in Pictures}}
    \cup {[bits |-> {}, loadable |-> FALSE]}

\* max(1, int(max_items))
Capacity(n) == IF n < 1 THEN 1 ELSE n

KeysOf(dd) == [i \in 1..Len(dd) |-> dd[i].key]
HasKey(dd, k) == \E i \in 1..Len(dd) : dd[i].key = k
IndexOf(dd, k) == CHOOSE i \in 1..Len(dd) : dd[i].key = k
Without(dd, k) == SelectSeq(dd, LAMBDA e : e.key # k)

\* OrderedDict: self._d[key] = value (an existing key keeps its position)
DictSet(dd, k, v) ==
    IF HasKey(dd, k)
    THEN [i \in 1..Len(dd) |-> IF dd[i].key = k THEN [key |-> k, value |-> v] ELSE dd[i]]
    ELSE Append(dd, [key |-> k, value |-> v])

\* OrderedDict.move_to_end(key)
MoveToEnd(dd, k) == Append(Without(dd, k), dd[IndexOf(dd, k)])

\* An eviction loop that stops one entry early.
RECURSIVE TrimLate(_, _)
TrimLate(dd, n) == IF Len(dd) > n + 1 THEN TrimLate(Tail(dd), n) ELSE dd

\* while len(self._d) > self.max_items: self._d.popitem(last=False)
RECURSIVE Trim(_, _)
Trim(dd, n) == IF Len(dd) > n THEN Trim(Tail(dd), n) ELSE dd

\* A get that does not promote the key it finds.
LRUGetNoPromote(dd, k) ==
    IF HasKey(dd, k)
    THEN [d |-> dd, value |-> Some(dd[IndexOf(dd, k)].value)]
    ELSE [d |-> dd, value |-> None]

\* _LRUCache.get: the cache afterwards and the value returned
LRUGet(dd, k) ==
    IF HasKey(dd, k)
    THEN [d |-> MoveToEnd(dd, k), value |-> Some(dd[IndexOf(dd, k)].value)]
    ELSE [d |-> dd, value |-> None]

\* _LRUCache.put: the cache afterwards
LRUPut(dd, n, k, v) == Trim(MoveToEnd(DictSet(dd, k, v), k), n)

\* The keys a put evicts, oldest first.
Evicted(dd, n, k, v) ==
    LET full == MoveToEnd(DictSet(dd, k, v), k)
        kept == LRUPut(dd, n, k, v)
    IN [i \in 1..(Len(full) - Len(kept)) |-> full[i].key]

NoOp == [op |-> "none", key |-> None, hit |-> FALSE, evicted |-> <<>>]

\* --------------------------------------------------- U8G2SimLCD file blits
(***************************************************************************)
(* A bitmap file on disk.  stat says whether os.stat works; mtime is its   *)
(* st_mtime in units of 1/SubSec s; data is what Pillow makes of it:       *)
(*   noopen  Image.open raises (missing, unreadable, no image header)      *)
(*   trunc   the header parses, so Image.open returns, but the pixel data  *)
(*           is cut short: the first load() of the image raises            *)
(*   first   a bilevel image with only its first pixel lit                 *)
(***************************************************************************)
BmpData == {"noopen", "trunc", "first"}
BmpFiles ==
    {[stat |-> FALSE, mtime |-> None, data |-> c] : c \in BmpData}
    \cup
    {[stat |-> TRUE, mtime |-> Some(t), data |-> c] : t \in 0..MaxStamp, c \in BmpData}

FbCoords == (0..(FbW - 1)) \X (0..(FbH - 1))

PictureOf(data) == IF data = "first" THEN {<<0, 0>>} ELSE {}

\* int(st.st_mtime)
IntSec(t) == t \div SubSec

\* A key that leaves the invert flag out.
BmpKeyNoInvert(f, path, invert) ==
    IF f.stat
    THEN [path |-> path, mtime |-> Some(IntSec(f.mtime[1])), invert |-> FALSE]
    ELSE [path |-> path, mtime |-> None, invert |-> FALSE]

\* (abspath, int(st.st_mtime), bool(invert)), or (path, None, bool(invert))
\* when the file cannot be stat'ed
BmpKey(f, path, invert) ==
    IF f.stat
    THEN [path |-> path, mtime |-> Some(IntSec(f.mtime[1])), invert |-> invert]
    ELSE [path |-> path, mtime |-> None, invert |-> invert]

\* Image.open and the conversions after it: "open_error" when Image.open
\* raises, "raise" when a conversion has to load the pixel data and cannot,
\* else the image.  A bilevel image that is not inverted is not loaded here.
Decode(f, invert) ==
    IF f.data = "noopen" THEN [status |-> "open_error", image |-> None]
    ELSE IF f.data = "trunc"
    THEN IF invert
         THEN [status |-> "raise", image |-> None]
         ELSE [status |-> "ok", image |-> Some([bits |-> {}, loadable |-> FALSE])]
    ELSE [status |-> "ok",
          image |-> Some([bits |-> IF invert THEN ImgCoords \ PictureOf(f.data)
                                   ELSE PictureOf(f.data),
                          loadable |-> TRUE])]

LoadedImage(dd, image, hit, decodes, raised) ==
    [d |-> dd, image |-> image, hit |-> hit, decodes |-> decodes, raised |-> raised]

\* A loader that does not store an image under a key without a timestamp.
LoadSkipDegraded(dd, n, f, path, invert) ==
    LET key == BmpKey(f, path, invert)
        got == LRUGet(dd, key)
        dec == Decode(f, invert)
    IN IF got.value # None THEN LoadedImage(got.d, got.value, TRUE, 0, FALSE)
       ELSE IF dec.status = "open_error" THEN LoadedImage(got.d, None, FALSE, 1, FALSE)
       ELSE IF dec.status = "raise" THEN LoadedImage(got.d, None, FALSE, 1, TRUE)
       ELSE LoadedImage(IF key.mtime = None THEN got.d
                        ELSE LRUPut(got.d, n, key, dec.image[1]),
                        dec.image, FALSE, 1, FALSE)

\* U8G2SimLCD._load_image_mono_cached
LoadImageMonoCached(dd, n, f, path, invert) ==
    LET key == BmpKey(f, path, invert)
        got == LRUGet(dd, key)
        dec == Decode(f, invert)
    IN IF got.value # None THEN LoadedImage(got.d, got.value, TRUE, 0, FALSE)
       ELSE IF dec.status = "open_error" THEN LoadedImage(got.d, None, FALSE, 1, FALSE)
       ELSE IF dec.status = "raise" THEN LoadedImage(got.d, None, FALSE, 1, TRUE)
       ELSE LoadedImage(LRUPut(got.d, n, key, dec.image[1]), dec.image, FALSE, 1, FALSE)

\* A bounds test that lets every coordinate through.
InBoundsAny(c) == TRUE

\* 0 <= x < self.width and 0 <= y < self.height
InBounds(c) == 0 <= c[1] /\ c[1] < FbW /\ 0 <= c[2] /\ c[2] < FbH

\* A putpixel that always writes WHITE.
PutPixelsWhite(fb, coords, color) ==
    [img |-> [c \in FbCoords |-> IF c \in coords THEN WHITE ELSE fb[c]],
     raised |-> ~(coords \subseteq FbCoords)]

\* self.img.putpixel(c, color) for every c of coords: the framebuffer
\* afterwards, and whether a coordinate lay outside the image, which
\* Image.putpixel answers with an IndexError
PutPixels(fb, coords, color) ==
    [img |-> [c \in FbCoords |-> IF c \in coords THEN color ELSE fb[c]],
     raised |-> ~(coords \subseteq FbCoords)]

\* U8G2SimLCD._blit_PIL_image_mono: the framebuffer afterwards, and whether
\* pil_img.load() raised
BlitPILImageMono(fb, color, image, x, y) ==
    IF ~image.loadable THEN [img |-> fb, raised |-> TRUE]
    ELSE PutPixels(fb,
                   {c \in {<<x + ij[1], y + ij[2]>> : ij \in image.bits} : InBounds(c)},
                   color)

\* ------------------------------------------- U8G2SimLCD packed bitmap blits
\* (w + 7) // 8
DefaultStride(w) == (w + 7) \div 8

\* bytes(int(b) & 0xFF for b in data)
ToBytes(data) == [n \in 1..Len(data) |-> data[n] % 256]

\* A decoder that takes bit 0 of a byte for the first column.
SourceBitLSB(buf, stride, row, col, invert) ==
    LET b_i == row * stride + (col \div 8)
        bit == IF b_i < Len(buf) THEN (buf[b_i + 1] \div 2^(col % 8)) % 2 ELSE 0
    IN IF invert THEN 1 - bit ELSE bit

\* A decoder that takes the bits past the end of the buffer as set.
SourceBitPadOn(buf, stride, row, col, invert) ==
    LET b_i == row * stride + (col \div 8)
        bit == IF b_i < Len(buf) THEN (buf[b_i + 1] \div 2^(7 - (col % 8))) % 2 ELSE 1
    IN IF invert THEN 1 - bit ELSE bit

\* The bit drawBitmap1 tests for (row, col): (buf[b_i] >> (7 - col % 8)) & 1,
\* or 0 when b_i is past the end of the buffer; flipped when invert is set
SourceBit(buf, stride, row, col, invert) ==
    LET b_i == row * stride + (col \div 8)
        bit == IF b_i < Len(buf) THEN (buf[b_i + 1] \div 2^(7 - (col % 8))) % 2 ELSE 0
    IN IF invert THEN 1 - bit ELSE bit

\* U8G2SimLCD.drawBitmap1: the framebuffer afterwards, and whether it raised
BlitBitmap1(fb, color, x, y, w, h, data, stride, invert) ==
    LET st == IF stride = None THEN DefaultStride(w) ELSE stride[1]
        buf == ToBytes(data)
        on == {cr \in (0..(w - 1)) \X (0..(h - 1)) :
                  SourceBit(buf, st, cr[2], cr[1], invert) = 1}
    IN PutPixels(fb,
                 {c \in {<<x + cr[1], y + cr[2]>> : cr \in on} : InBounds(c)},
                 color)

\* ---------------------------------------------- arguments of drawing calls
DataSamples == {<<240>>, <<129, 496>>}
ColorArgs == {0, 1, 2}
Strides == {None} \cup {Some(n) : n \in 1..MaxStride}

NoArg ==
    [op |-> "none", x |-> 0, y |-> 0, w |-> 0, h |-> 0, data |-> <<>>,
     stride |-> None, invert |-> FALSE, path |-> None]

\* drawPixel on, beside, above and below the framebuffer
PixelArgs ==
    {[NoArg EXCEPT !.op = "drawPixel", !.x = x, !.y = y] :
        x \in (0 - 1)..FbW, y \in (0 - 1)..FbH}

\* Packed bitmaps placed so that each of their columns and rows, and the
\* column and row next to them, comes to lie on the framebuffer
PackedPlaces ==
    {a \in [x : (0 - MaxBW)..FbW, y : (0 - MaxBH)..FbH, w : 0..MaxBW, h : 0..MaxBH] :
        a.x >= 0 - a.w /\ a.y >= 0 - a.h}

Bitmap1Args ==
    {[NoArg EXCEPT !.op = "drawBitmap1", !.x = a.x, !.y = a.y, !.w = a.w, !.h = a.h,
                   !.data = data, !.stride = stride, !.invert = invert] :
        a \in PackedPlaces, data \in DataSamples, stride \in Strides,
        invert \in BOOLEAN}

XBMArgs ==
    {[NoArg EXCEPT !.op = "drawXBM", !.x = a.x, !.y = a.y, !.w = a.w, !.h = a.h,
                   !.data = data] :
        a \in PackedPlaces, data \in DataSamples}

FileArgs ==
    {[NoArg EXCEPT !.op = op, !.path = Some(p), !.x = x, !.y = y, !.invert = invert] :
        op \in {"drawXBMfile", "drawPBMfile"}, p \in BmpPaths,
        x \in (0 - ImgW)..FbW, y \in (0 - ImgH)..FbH, invert \in BOOLEAN}

Args == PixelArgs \cup Bitmap1Args \cup XBMArgs \cup FileArgs

NoCall ==
    [op |-> "none", path |-> None, invert |-> FALSE, mtime |-> None,
     got |-> FALSE, hit |-> FALSE, decodes |-> 0, raised |-> FALSE]

\* ---------------------------------------------------------------- Init
LoopInit ==
    /\ file \in Files
    /\ last_mtime = None
    /\ module_env = None
    /\ func_name = None
    /\ started = FALSE
    /\ after_timers = 0
    /\ after_due = 0
    /\ tick = NoTick

CacheIdle ==
    /\ max_items = 1
    /\ d = <<>>
    /\ lru_op = NoOp

LoopIdle ==
    /\ file = [kind |-> "missing", mtime |-> None, draw |-> "absent",
               demo_draw |-> "absent"]
    /\ last_mtime = None
    /\ module_env = None
    /\ func_name = None
    /\ started = FALSE
    /\ after_timers = 0
    /\ after_due = 0
    /\ tick = NoTick

\* _LRUCache.__init__(max_items) for a max_items in 0..most
CacheInit(most) ==
    /\ \E n \in 0..most : max_items = Capacity(n)
    /\ d = <<>>
    /\ lru_op = NoOp

\* U8G2SimLCD.__init__: a black framebuffer, draw colour WHITE
LcdInit ==
    /\ img = [c \in FbCoords |-> BLACK]
    /\ draw_color = WHITE
    /\ call = NoCall

LcdIdle ==
    /\ bmp = [p \in BmpPaths |-> [stat |-> FALSE, mtime |-> None, data |-> "noopen"]]
    /\ LcdInit
    /\ arg = NoArg

Init == LoopInit /\ CacheIdle /\ LcdIdle

\* ------------------------------------------------------------- actions
\* The user saves, replaces, deletes or locks the watched file.  A file
\* that is rewritten in place gets a new timestamp.
FileChanges ==
    /\ \E f \in Files :
          /\ f # file
          /\ (f.mtime # None /\ file.mtime # None) => f.mtime # file.mtime
          /\ file' = f
    /\ UNCHANGED <<last_mtime, module_env, func_name, started,
                   after_timers, after_due, tick, cacheVars, lcdVars>>

\* LivePythonRenderer.start: root.after(0, pump)
Start ==
    /\ ~started
    /\ started' = TRUE
    /\ after_timers' = after_timers + 1
    /\ UNCHANGED <<file, last_mtime, module_env, func_name, after_due, tick,
                   cacheVars, lcdVars>>

\* Tk: the delay of a registered callback elapses.
TimerFires ==
    /\ after_timers > 0
    /\ after_timers' = after_timers - 1
    /\ after_due' = after_due + 1
    /\ UNCHANGED <<file, last_mtime, module_env, func_name, started, tick,
                   cacheVars, lcdVars>>

\* A pump that registers the next callback both at the end of the try body
\* and in the finally clause.
PumpBodyTwice(outcome, reschedOnRaise) ==
    LET r == Load(last_mtime, module_env, func_name, file)
        calls == /\ ~r.raised
                 /\ r.module_env # None
                 /\ r.func_name # None
                 /\ Callable(r.module_env[1], r.func_name[1])
        inv == IF calls
               THEN <<[env |-> r.module_env[1], name |-> r.func_name[1],
                       outcome |-> outcome]>>
               ELSE <<>>
        frames == IF calls THEN r.frames \o InvokeFrames(outcome) ELSE r.frames
    IN /\ last_mtime' = r.last_mtime
       /\ module_env' = r.module_env
       /\ func_name' = r.func_name
       /\ tick' = [stat |-> r.stat, stage |-> r.stage, frames |-> frames,
                   invoked |-> inv, raised |-> r.raised,
                   after_fault |-> Faulted(tick)]
       /\ after_due' = after_due - 1
       /\ after_timers' = after_timers + (IF r.raised THEN 1 ELSE 2)

\* One run of pump with the given outcome of the entry point, should it be
\* called; resched is the number of callbacks the run registers.
PumpBody(outcome, reschedOnRaise) ==
    LET r == Load(last_mtime, module_env, func_name, file)
        calls == /\ ~r.raised
                 /\ r.module_env # None
                 /\ r.func_name # None
                 /\ Callable(r.module_env[1], r.func_name[1])
        inv == IF calls
               THEN <<[env |-> r.module_env[1], name |-> r.func_name[1],
                       outcome |-> outcome]>>
               ELSE <<>>
        frames == IF calls THEN r.frames \o InvokeFrames(outcome) ELSE r.frames
        resched == IF r.raised /\ ~reschedOnRaise THEN 0 ELSE 1
    IN /\ last_mtime' = r.last_mtime
       /\ module_env' = r.module_env
       /\ func_name' = r.func_name
       /\ tick' = [stat |-> r.stat, stage |-> r.stage, frames |-> frames,
                   invoked |-> inv, raised |-> r.raised,
                   after_fault |-> Faulted(tick)]
       /\ after_due' = after_due - 1
       /\ after_timers' = after_timers + resched

\* A pump whose rescheduling sits at the end of the try body instead of in
\* the finally clause.
PumpNoFinally ==
    /\ after_due > 0
    /\ \E outcome \in Outcomes : PumpBody(outcome, FALSE)
    /\ UNCHANGED <<file, started, cacheVars, lcdVars>>

\* pump, the callback start() registers
Pump ==
    /\ after_due > 0
    /\ \E outcome \in Outcomes : PumpBody(outcome, TRUE)
    /\ UNCHANGED <<file, started, cacheVars, lcdVars>>

Next == FileChanges \/ Start \/ TimerFires \/ Pump

Spec == Init /\ [][Next]_vars

\* --------------------------------------------- _LRUCache taken on its own
\* _LRUCache.get
CacheGet(k) ==
    /\ d' = LRUGet(d, k).d
    /\ lru_op' = [op |-> "get", key |-> Some(k), hit |-> LRUGet(d, k).value # None,
                  evicted |-> <<>>]
    /\ UNCHANGED <<max_items, loopVars, lcdVars>>

\* _LRUCache.put
CachePut(k, v) ==
    /\ d' = LRUPut(d, max_items, k, v)
    /\ lru_op' = [op |-> "put", key |-> Some(k), hit |-> HasKey(d, k),
                  evicted |-> Evicted(d, max_items, k, v)]
    /\ UNCHANGED <<max_items, loopVars, lcdVars>>

\* _LRUCache.clear
CacheClear ==
    /\ d' = <<>>
    /\ lru_op' = [op |-> "clear", key |-> None, hit |-> FALSE, evicted |-> <<>>]
    /\ UNCHANGED <<max_items, loopVars, lcdVars>>

LRUInit == LoopIdle /\ CacheInit(MaxItems) /\ LcdIdle

LRUNext ==
    \/ \E k \in Keys : CacheGet(k)
    \/ \E k \in Keys, v \in Images : CachePut(k, v)
    \/ CacheClear

LRUSpec == LRUInit /\ [][LRUNext]_vars

\* main() calls start() and enters Tk's mainloop, which runs every timer
\* and every due callback.
LiveSpec ==
    Spec /\ WF_vars(Start) /\ WF_vars(TimerFires) /\ WF_vars(Pump)

\* ------------------------------------------- U8G2SimLCD drawing from files
\* A bitmap file is written, touched, removed or made inaccessible.  New
\* contents come with a new timestamp.
BmpChanges(p) ==
    /\ \E f \in BmpFiles :
          /\ f # bmp[p]
          /\ (f.stat /\ bmp[p].stat /\ f.data # bmp[p].data) => f.mtime # bmp[p].mtime
          /\ bmp' = [bmp EXCEPT ![p] = f]
    /\ UNCHANGED <<img, draw_color, call, arg, cacheVars, loopVars>>

\* The body that drawXBMfile and drawPBMfile share.
DrawFile(path, x, y, invert) ==
    LET f == bmp[path]
        r == LoadImageMonoCached(d, max_items, f, path, invert)
        b == IF r.image # None
             THEN BlitPILImageMono(img, draw_color, r.image[1], x, y)
             ELSE [img |-> img, raised |-> FALSE]
    IN /\ d' = r.d
       /\ img' = b.img
       /\ call' = [op |-> "file", path |-> Some(path), invert |-> invert,
                   mtime |-> f.mtime, got |-> r.image # None, hit |-> r.hit,
                   decodes |-> r.decodes,
                   raised |-> r.raised \/ b.raised]
       /\ UNCHANGED <<max_items, lru_op, bmp, draw_color, arg, loopVars>>

\* U8G2SimLCD.drawXBMfile
DrawXBMfile(path, x, y, invert) == DrawFile(path, x, y, invert)

\* U8G2SimLCD.drawPBMfile
DrawPBMfile(path, x, y, invert) == DrawFile(path, x, y, invert)

\* U8G2SimLCD.clearBitmapCache
ClearBitmapCache ==
    /\ d' = <<>>
    /\ UNCHANGED <<max_items, lru_op, lcdVars, loopVars>>

\* Where a blit is placed: hanging over the left edge, at the origin, past
\* the right edge, or below the last row.
Places == {<<0 - 1, 0>>, <<0, 0>>, <<FbW, 0>>, <<0, FbH>>}

BlitInit ==
    /\ LoopIdle
    /\ CacheInit(BlitItems)
    /\ bmp \in [BmpPaths -> BmpFiles]
    /\ LcdInit
    /\ arg = NoArg

BlitNext ==
    \/ \E p \in BmpPaths : BmpChanges(p)
    \/ \E p \in BmpPaths, xy \in Places, i \in BOOLEAN : DrawXBMfile(p, xy[1], xy[2], i)
    \/ \E p \in BmpPaths, xy \in Places, i \in BOOLEAN : DrawPBMfile(p, xy[1], xy[2], i)
    \/ ClearBitmapCache

BlitSpec == BlitInit /\ [][BlitNext]_vars

\* ------------------------------------------------ drawing calls of one kind
\* A setDrawColor that stores its argument as the colour.
SetDrawColorRaw(color) ==
    /\ draw_color' = color
    /\ UNCHANGED <<bmp, img, call, arg, cacheVars, loopVars>>

\* U8G2SimLCD.setDrawColor
SetDrawColor(color) ==
    /\ draw_color' = (IF color # 0 THEN WHITE ELSE BLACK)
    /\ UNCHANGED <<bmp, img, call, arg, cacheVars, loopVars>>

\* U8G2SimLCD.clearBuffer
ClearBuffer ==
    /\ img' = [c \in FbCoords |-> BLACK]
    /\ UNCHANGED <<bmp, draw_color, call, arg, cacheVars, loopVars>>

\* U8G2SimLCD.drawPixel
DrawPixel(x, y) ==
    LET r == PutPixels(img, {c \in {<<x, y>>} : InBounds(c)}, draw_color)
    IN /\ img' = r.img
       /\ call' = [NoCall EXCEPT !.op = "drawPixel", !.raised = r.raised]
       /\ UNCHANGED <<bmp, draw_color, arg, cacheVars, loopVars>>

\* U8G2SimLCD.drawBitmap1
DrawBitmap1(x, y, w, h, data, stride, invert) ==
    LET r == BlitBitmap1(img, draw_color, x, y, w, h, data, stride, invert)
    IN /\ img' = r.img
       /\ call' = [NoCall EXCEPT !.op = "drawBitmap1", !.invert = invert,
                                 !.raised = r.raised]
       /\ UNCHANGED <<bmp, draw_color, arg, cacheVars, loopVars>>

\* U8G2SimLCD.drawXBM
DrawXBM(x, y, w, h, data) ==
    DrawBitmap1(x, y, w, h, data, Some(DefaultStride(w)), FALSE)

\* A display with a decodable bitmap file on disk, and drawing code that
\* makes one drawing call with fixed arguments.
DrawInit ==
    /\ LoopIdle
    /\ CacheInit(BlitItems)
    /\ bmp = [p \in BmpPaths |-> [stat |-> TRUE, mtime |-> Some(0), data |-> "first"]]
    /\ LcdInit
    /\ arg \in Args

DrawNext ==
    \/ \E color \in ColorArgs : SetDrawColor(color)
    \/ ClearBuffer
    \/ arg.op = "drawPixel" /\ DrawPixel(arg.x, arg.y)
    \/ /\ arg.op = "drawBitmap1"
       /\ DrawBitmap1(arg.x, arg.y, arg.w, arg.h, arg.data, arg.stride, arg.invert)
    \/ arg.op = "drawXBM" /\ DrawXBM(arg.x, arg.y, arg.w, arg.h, arg.data)
    \/ arg.op = "drawXBMfile" /\ DrawXBMfile(arg.path[1], arg.x, arg.y, arg.invert)
    \/ arg.op = "drawPBMfile" /\ DrawPBMfile(arg.path[1], arg.x, arg.y, arg.invert)

DrawSpec == DrawInit /\ [][DrawNext]_vars

(***************************************************************************)
(*                       Properties of the live-reload loop                *)
(***************************************************************************)

\* C1: a tick whose reload fails at the compile / top-level execution stage
\* invokes no entry point and leaves no entry point bound, so the entry point
\* bound before it is not invoked on that tick nor on a later one until a
\* reload succeeds.
C1_StaleDiscarded ==
    tick.stage = "exec_error" => (tick.invoked = <<>> /\ module_env = None)

\* C2: a tick that finds the source file missing presents the waiting
\* message and invokes no entry point.
C2_MissingOnlyWaits ==
    tick.stat = "missing" => (tick.frames = <<"waiting">> /\ tick.invoked = <<>>)

\* C3: when the entry point raises in a tick, the exception does not leave
\* pump, the tick's last frame is the error frame and the binding is kept;
\* and the tick after it, if the file's timestamp is still the last-seen one,
\* reloads nothing and invokes the same entry point again, presenting exactly
\* the user's frame when that call succeeds.
C3_FaultRetry ==
    [][Pump =>
         /\ Faulted(tick') =>
               /\ ~tick'.raised
               /\ Last(tick'.frames) = "draw_error"
               /\ module_env' = Some(tick'.invoked[1].env)
               /\ func_name' = Some(tick'.invoked[1].name)
         /\ (Faulted(tick) /\ file.mtime # None /\ file.mtime = last_mtime) =>
               /\ tick'.stat = "unchanged"
               /\ tick'.stage = "none"
               /\ Len(tick'.invoked) = 1
               /\ tick'.invoked[1].env = tick.invoked[1].env
               /\ tick'.invoked[1].name = tick.invoked[1].name
               /\ tick'.frames = InvokeFrames(tick'.invoked[1].outcome)
               /\ tick'.invoked[1].outcome = "ok" => tick'.frames = <<"user">>
      ]_vars

\* A tick right after a faulting one that found the file unchanged, invoked
\* the entry point again and presented the user's frame.
C3_Witness ==
    /\ tick.after_fault
    /\ tick.stat = "unchanged"
    /\ tick.invoked # <<>>
    /\ tick.invoked[1].outcome = "ok"
    /\ tick.frames = <<"user">>

\* C4: every tick that pump runs to its end presents exactly one frame.
C4_OneFramePerTick ==
    (tick.stat # "none" /\ ~tick.raised) => Len(tick.frames) = 1

\* C5: once the program runs, pump runs again and again, forever.
C5_TicksForever == []<><<Pump>>_vars

\* A tick that os.stat's exception left early, with the next tick registered.
C5_Witness ==
    /\ tick.raised
    /\ after_timers + after_due = 1

\* C16: a tick attempts a reload exactly when os.stat succeeds and the
\* timestamp it returns is the first one seen or differs from the last-seen
\* one; a tick that finds the timestamp unchanged reloads nothing, keeps the
\* timestamp, the binding and the entry point's name, and invokes the bound
\* entry point, if there is one, exactly once.
C16_ReloadWhenChanged ==
    [][Pump =>
         LET statable == file.mtime # None
             changed == statable /\ (last_mtime = None \/ file.mtime # last_mtime)
         IN /\ (tick'.stage # "none") <=> changed
            /\ (statable /\ ~changed) =>
                  /\ tick'.stat = "unchanged"
                  /\ last_mtime' = last_mtime
                  /\ module_env' = module_env
                  /\ func_name' = func_name
                  /\ Len(tick'.invoked) = Len(module_env)
                  /\ module_env # None =>
                        /\ tick'.invoked[1].env = module_env[1]
                        /\ tick'.invoked[1].name = func_name[1]
      ]_vars

\* A tick that found the timestamp unchanged, reloaded nothing and invoked
\* the entry point bound before it.
C16_Witness ==
    /\ tick.stat = "unchanged"
    /\ tick.stage = "none"
    /\ Len(tick.invoked) = 1
    /\ ~tick.after_fault

\* C17: a load that fails (read error, compile or execution error, no entry
\* point) while no timestamp is recorded leaves the last-seen timestamp
\* null.
C17_NullUntilLoaded ==
    [][(Pump /\ last_mtime = None
             /\ tick'.stage \in {"read_error", "exec_error", "no_func"}) =>
          last_mtime' = None
      ]_vars

\* C18: a reload whose top level ran binds the first callable of draw,
\* demo_draw, in that order, in place of any earlier binding, and invokes it
\* in the same tick; when neither is callable it leaves nothing bound and
\* invokes nothing.  A tick that binds nothing new invokes only what was
\* bound before it, and nothing when nothing was bound.
C18_EntryPointResolution ==
    [][Pump =>
         LET ran == /\ file.kind = "module"
                    /\ (last_mtime = None \/ file.mtime # last_mtime)
             name == IF file.draw = "func" THEN "draw" ELSE "demo_draw"
             env == [mtime |-> file.mtime[1], draw |-> file.draw,
                     demo_draw |-> file.demo_draw]
         IN /\ (ran /\ "func" \in {file.draw, file.demo_draw}) =>
                  /\ tick'.stage = "bound"
                  /\ module_env' = Some(env)
                  /\ func_name' = Some(name)
                  /\ Len(tick'.invoked) = 1
                  /\ tick'.invoked[1].env = env
                  /\ tick'.invoked[1].name = name
            /\ (ran /\ "func" \notin {file.draw, file.demo_draw}) =>
                  /\ tick'.stage = "no_func"
                  /\ module_env' = None
                  /\ tick'.invoked = <<>>
            /\ ~ran =>
                  /\ tick'.stage \notin {"bound", "no_func"}
                  /\ module_env' = module_env
                  /\ module_env = None => tick'.invoked = <<>>
                  /\ tick'.invoked # <<>> =>
                        /\ tick'.invoked[1].env = module_env[1]
                        /\ tick'.invoked[1].name = func_name[1]
      ]_vars

\* A reload that skipped a draw that is not callable and bound and invoked
\* demo_draw.
C18_Witness ==
    /\ tick.stage = "bound"
    /\ Len(tick.invoked) = 1
    /\ tick.invoked[1].name = "demo_draw"
    /\ tick.invoked[1].env.draw = "value"
    /\ func_name = Some("demo_draw")

\* C19: before start() no pump callback is registered; after it exactly one
\* is, whether its delay is still running or it is due: a tick consumes the
\* due callback and registers the one for the next tick.
C19_OneTickPending ==
    after_timers + after_due = (IF started THEN 1 ELSE 0)

\* A tick has run and the callback for the next one waits for its delay.
C19_Witness ==
    /\ tick.stat # "none"
    /\ ~tick.raised
    /\ after_timers = 1
    /\ after_due = 0

(***************************************************************************)
(*                     Properties of the cached file blits                 *)
(***************************************************************************)
FileBlit(p, xy, i) ==
    DrawXBMfile(p, xy[1], xy[2], i) \/ DrawPBMfile(p, xy[1], xy[2], i)

\* C6: of two successive file blits of the same path with the same invert
\* flag, the first of which obtained and drew an image, the second hits the cache and
\* decodes nothing when the file's timestamp is the one the first saw (and
\* the cache was not cleared in between), and misses and decodes once when
\* the timestamp differs by any amount.
C6_CacheIdentity ==
    [][\A p \in BmpPaths, xy \in Places, i \in BOOLEAN :
          (/\ FileBlit(p, xy, i)
           /\ call.op = "file" /\ call.path = Some(p) /\ call.invert = i
           /\ call.got /\ ~call.raised /\ call.mtime # None /\ bmp[p].stat) =>
             IF bmp[p].mtime = call.mtime
             THEN HasKey(d, BmpKey(bmp[p], p, i)) =>
                     (call'.hit /\ call'.decodes = 0)
             ELSE ~call'.hit /\ call'.decodes = 1
      ]_vars

C8_SilentNoOp ==
    [][\A p \in BmpPaths, xy \in Places, i \in BOOLEAN :
          (/\ FileBlit(p, xy, i)
           /\ bmp[p].data \in {"noopen", "trunc"}
           /\ ~HasKey(d, BmpKey(bmp[p], p, i))) =>
             (~call'.raised /\ img' = img /\ d' = d)
      ]_vars

(***************************************************************************)
(*                         Properties of _LRUCache                         *)
(***************************************************************************)

\* What a decodable image looks like in each polarity.
Polarity(image, i) ==
    image.loadable =>
       image.bits = (IF i THEN ImgCoords \ PictureOf("first") ELSE PictureOf("first"))

\* C20: every cached image has the polarity of the invert flag in its key,
\* and the image the last file blit obtained, from a hit or from a fresh
\* decode, is, for as long as the cache is not cleared, the most recently
\* used entry: its key holds the requested path and invert flag and its
\* image has the requested polarity.
C20_PolarityKept ==
    /\ \A n \in 1..Len(d) : Polarity(d[n].value, d[n].key.invert)
    /\ (call.op = "file" /\ call.got /\ d # <<>>) =>
          /\ Last(d).key.path = call.path[1]
          /\ Last(d).key.invert = call.invert
          /\ Polarity(Last(d).value, call.invert)

\* An inverted blit was served from the cache and drew the inverted image.
C20_Witness ==
    /\ call.op = "file"
    /\ call.invert
    /\ call.hit
    /\ ~call.raised
    /\ d # <<>>
    /\ Last(d).key.invert
    /\ Last(d).value.loadable
    /\ Last(d).value.bits = ImgCoords \ {<<0, 0>>}

(***************************************************************************)
(*                     Properties of the drawing calls                     *)
(***************************************************************************)
\* ceil(w/8)
CeilDiv8(w) == CHOOSE n \in 0..w : 8 * n >= w /\ 8 * n < w + 8

\* The stride of the packed blit that arg describes.
ArgStride ==
    IF arg.op = "drawBitmap1" /\ arg.stride # None THEN arg.stride[1]
    ELSE CeilDiv8(arg.w)

\* Column and row of the source that lie on framebuffer pixel p.
SrcCol(p) == p[1] - arg.x
SrcRow(p) == p[2] - arg.y
InRect(p) ==
    /\ 0 <= SrcCol(p) /\ SrcCol(p) < arg.w
    /\ 0 <= SrcRow(p) /\ SrcRow(p) < arg.h

\* The index, from 0, of the byte that holds the source bit shown at p.
ByteAt(p) == SrcRow(p) * ArgStride + (SrcCol(p) \div 8)

\* Bit 7 - (c mod 8) of that byte is inside the buffer and set.
BitSet(p) ==
    /\ InRect(p)
    /\ ByteAt(p) < Len(arg.data)
    /\ ((arg.data[ByteAt(p) + 1] % 256) \div 2^(7 - (SrcCol(p) % 8))) % 2 = 1

\* The bitmap file's image in the polarity asked for.
FileBits == IF arg.invert THEN ImgCoords \ PictureOf("first") ELSE PictureOf("first")

\* Framebuffer pixel p lies under a source bit that is set once the
\* inversion asked for has been applied.
Target(p) ==
    IF arg.op = "drawPixel" THEN p = <<arg.x, arg.y>>
    ELSE IF arg.op \in {"drawBitmap1", "drawXBM"}
    THEN InRect(p) /\ (BitSet(p) <=> ~arg.invert)
    ELSE <<SrcCol(p), SrcRow(p)>> \in FileBits

PackedStep ==
    \/ /\ arg.op = "drawBitmap1"
       /\ DrawBitmap1(arg.x, arg.y, arg.w, arg.h, arg.data, arg.stride, arg.invert)
    \/ arg.op = "drawXBM" /\ DrawXBM(arg.x, arg.y, arg.w, arg.h, arg.data)

PixelStep == arg.op = "drawPixel" /\ DrawPixel(arg.x, arg.y)

FileStep ==
    /\ arg.op \in {"drawXBMfile", "drawPBMfile"}
    /\ FileBlit(arg.path[1], <<arg.x, arg.y>>, arg.invert)

\* C11: a packed blit without inversion gives the draw colour to exactly the
\* framebuffer pixels (x + c, y + r) with 0 <= c < w and 0 <= r < h for which
\* bit 7 - (c mod 8) of byte r * stride + c div 8 is set, stride being
\* ceil(w/8) when none is given, and leaves every other pixel as it was.
C11_PackedDecode ==
    [][(PackedStep /\ ~arg.invert) =>
          \A p \in FbCoords : img'[p] = (IF BitSet(p) THEN draw_color ELSE img[p])
      ]_vars

\* The buffer [0b11110000] was blitted with w = 4, h = 1 so that its column
\* 3 lies on the framebuffer, and the pixel is lit.
C11_Witness ==
    /\ call.op = "drawBitmap1"
    /\ arg.data = <<240>>
    /\ arg.w = 4
    /\ arg.h = 1
    /\ arg.x = 0 - 3
    /\ arg.y = 0
    /\ ~arg.invert
    /\ draw_color = WHITE
    /\ img[<<0, 0>>] = WHITE

\* The buffer of the packed blit that arg describes is shorter than
\* h * stride.
Truncated == Len(arg.data) < arg.h * ArgStride

\* C12 as stated: a packed blit from a buffer shorter than h * stride raises
\* nothing and draws no pixel at a position whose byte lies past the end of
\* the buffer.
C12_TruncatedNotDrawn ==
    [][(PackedStep /\ Truncated) =>
          /\ ~call'.raised
          /\ \A p \in FbCoords :
                (InRect(p) /\ ByteAt(p) >= Len(arg.data)) => img'[p] = img[p]
      ]_vars

\* C12: a packed blit from a buffer shorter than h * stride raises nothing
\* and takes every bit whose byte lies past the end of the buffer as off
\* before the inversion: without inversion no pixel is drawn at such a
\* position, with inversion each of them gets the draw colour.
C12_TruncatedDecodesOff ==
    [][(PackedStep /\ Truncated) =>
          /\ ~call'.raised
          /\ \A p \in FbCoords :
                (InRect(p) /\ ByteAt(p) >= Len(arg.data)) =>
                   img'[p] = (IF arg.invert THEN draw_color ELSE img[p])
      ]_vars

\* An inverted blit from a truncated buffer has lit the pixel whose byte
\* lies past the end of the buffer.
C12_Witness ==
    /\ call.op = "drawBitmap1"
    /\ arg.op = "drawBitmap1"
    /\ arg.invert
    /\ Truncated
    /\ InRect(<<0, 0>>)
    /\ ByteAt(<<0, 0>>) >= Len(arg.data)
    /\ draw_color = WHITE
    /\ img[<<0, 0>>] = WHITE

\* C13: drawPixel, a packed blit and a file blit raise nothing wherever they
\* are placed, write the draw colour to the pixels under their set bits that
\* lie on the framebuffer, and change no other pixel; a drawPixel outside
\* the framebuffer and a blit that lies wholly outside it change nothing.
C13_Clipped ==
    [][(PixelStep \/ PackedStep \/ FileStep) =>
          /\ ~call'.raised
          /\ DOMAIN img' = FbCoords
          /\ \A p \in FbCoords :
                /\ img'[p] # img[p] => Target(p)
                /\ Target(p) => img'[p] = draw_color
          /\ (\A p \in FbCoords : ~Target(p)) => img' = img
      ]_vars

\* A packed blit that hangs over the left, right and top edges has lit the
\* pixel that lies on the framebuffer.
C13_Witness ==
    /\ call.op = "drawBitmap1"
    /\ ~call.raised
    /\ arg.x < 0
    /\ arg.x + arg.w > FbW
    /\ arg.y < 0
    /\ Target(<<0, 0>>)
    /\ draw_color = WHITE
    /\ img[<<0, 0>>] = WHITE

\* C14: a packed blit and a file blit write the draw colour of the moment of
\* the call to every pixel under a bit that is set after the inversion asked
\* for, and leave every pixel under an unset bit, every pixel outside the
\* source rectangle, and the draw colour as they were.
C14_SparseOverlay ==
    [][(PackedStep \/ FileStep) =>
          /\ draw_color' = draw_color
          /\ \A p \in FbCoords : img'[p] = (IF Target(p) THEN draw_color ELSE img[p])
      ]_vars

\* An inverted file blit has lit the pixel under the second pixel of the
\* file's image, which is off in the file.
C14_Witness ==
    /\ call.op = "file"
    /\ call.invert
    /\ ~call.raised
    /\ arg.x = 0 - 1
    /\ arg.y = 0
    /\ draw_color = WHITE
    /\ img[<<0, 0>>] = WHITE

\* C15: the draw colour is WHITE or BLACK in every state; setDrawColor makes it
\* WHITE for a non-zero argument and BLACK for zero and changes no pixel; and
\* no other call changes the draw colour.
C15_DrawColor ==
    /\ [](draw_color \in {WHITE, BLACK})
    /\ [][/\ \A color \in ColorArgs :
                SetDrawColor(color) =>
                   /\ color = 0 => draw_color' = BLACK
                   /\ color # 0 => draw_color' = WHITE
                   /\ img' = img
          /\ draw_color' # draw_color => \E color \in ColorArgs : SetDrawColor(color)
          /\ (PixelStep \/ PackedStep \/ FileStep \/ ClearBuffer) =>
                draw_color' = draw_color
         ]_vars

\* The colour was set to BLACK, and a drawing call made since has left the
\* pixel it targets black with the colour still BLACK.
C15_Witness ==
    /\ draw_color = BLACK
    /\ call.op # "none"
    /\ Target(<<0, 0>>)
    /\ img[<<0, 0>>] = BLACK

\* C9: the capacity is at least 1 and the cache never holds more entries
\* than its capacity.
C9_SizeBounded ==
    /\ max_items >= 1
    /\ Len(d) <= max_items

\* A put into a full cache that evicted an entry.
C9_Witness ==
    /\ lru_op.op = "put"
    /\ lru_op.evicted # <<>>
    /\ Len(d) = max_items

\* C10: a get that hits moves its key to the most-recently-used end and
\* changes nothing else; a get that misses changes nothing; a put leaves its
\* key, with the new value, at the most-recently-used end, keeps the other
\* entries in their order, and evicts exactly the oldest of them that do not
\* fit in the capacity.
C10_LRUOrder ==
    [][/\ \A k \in Keys :
            CacheGet(k) =>
               IF HasKey(d, k)
               THEN /\ Last(d') = d[IndexOf(d, k)]
                    /\ SubSeq(d', 1, Len(d') - 1) = Without(d, k)
                    /\ Len(d') = Len(d)
               ELSE d' = d
       /\ \A k \in Keys, v \in Images :
            CachePut(k, v) =>
               LET rest == Without(d, k)
                   over == IF Len(rest) + 1 > max_items
                           THEN Len(rest) + 1 - max_items ELSE 0
               IN /\ Last(d') = [key |-> k, value |-> v]
                  /\ SubSeq(d', 1, Len(d') - 1) = SubSeq(rest, over + 1, Len(rest))
                  /\ lru_op'.evicted = KeysOf(SubSeq(rest, 1, over))
                  /\ (Len(d) = max_items /\ ~HasKey(d, k)) =>
                        lru_op'.evicted = <<d[1].key>>
      ]_vars

\* A put of a new key into a full cache of two or more entries that evicted
\* exactly one key.
C10_Witness ==
    /\ lru_op.op = "put"
    /\ ~lru_op.hit
    /\ Len(lru_op.evicted) = 1
    /\ Len(d) = max_items
    /\ max_items >= 2

====
